---- MODULE Spec2Model ----
(***************************************************************************)
(* Model of the Finlytics finance tracker (src/app.py): a Flask service    *)
(* with a users table and a transactions table in SQLite and a client-side *)
(* signed session cookie per browser.  Every request handler is one        *)
(* action; the handler's response is recorded in the variable `last`.      *)
(*                                                                         *)
(* Strings that the code inspects character by character (the e-mail that  *)
(* is stripped, the date that SQLite orders, the amount that float()       *)
(* parses) are sequences of one-character strings.  A JSON value is a      *)
(* record [t, s] or [t, s, n]: t is "null", "str" or "num".                *)
(* An amount (REAL) is kept in hundredths.                                 *)
(***************************************************************************)
EXTENDS Integers, Sequences, FiniteSets, TLC

\* ------------------------------------------------------------------ bounds
MaxRequests == 3
NumSessions == 1
NumSalts == 1
MaxDeleteId == 2
NumWorkers == 2
MaxClock == 8

Sessions == 1..NumSessions
Salts == 1..NumSalts

\* ----------------------------------------------------------- string helpers
Whitespace == {" "}

RECURSIVE lstrip(_)
lstrip(s) == IF s = <<>> THEN s
             ELSE IF Head(s) \in Whitespace THEN lstrip(Tail(s)) ELSE s

RECURSIVE rstrip(_)
rstrip(s) == IF s = <<>> THEN s
             ELSE IF s[Len(s)] \in Whitespace
                  THEN rstrip(SubSeq(s, 1, Len(s) - 1)) ELSE s

\* str.strip()
strip(s) == rstrip(lstrip(s))

\* Code point of the characters that occur in dates and amounts (ASCII).
Ord(c) == CASE c = "-" -> 45 [] c = "." -> 46 [] c = "/" -> 47
            [] c = "0" -> 48 [] c = "1" -> 49 [] c = "2" -> 50
            [] c = "3" -> 51 [] c = "4" -> 52 [] c = "5" -> 53
            [] c = "6" -> 54 [] c = "7" -> 55 [] c = "8" -> 56
            [] c = "9" -> 57 [] OTHER -> 97

IsDigit(c) == Ord(c) >= 48 /\ Ord(c) <= 57

\* ------------------------------------------------------------- JSON values
JNull == [t |-> "null", s |-> <<>>]
JStr(s) == [t |-> "str", s |-> s]

\* Python truthiness of a JSON string-or-null: None and '' are falsy.
Truthy(v) == v.t = "str" /\ v.s # <<>>

\* `x or ''` for a string-or-null x
OrEmpty(v) == IF Truthy(v) THEN v.s ELSE <<>>

\* Strings the code only tests for emptiness and passes on (type, category,
\* categoryName) are TLA+ strings.
TNull == [t |-> "null", s |-> ""]
JTxt(s) == [t |-> "str", s |-> s]
TxtTruthy(v) == v.t = "str" /\ v.s # ""

\* Python truthiness of the amount: None, '', 0 and 0.0 are falsy.
AmountTruthy(v) == CASE v.t = "null" -> FALSE
                     [] v.t = "str" -> v.s # <<>>
                     [] v.t = "num" -> v.n # 0

\* ---------------------------------------------------------- float parsing
RECURSIVE TakeUntilDot(_)
TakeUntilDot(s) == IF s = <<>> \/ Head(s) = "." THEN <<>>
                   ELSE <<Head(s)>> \o TakeUntilDot(Tail(s))

AllDigits(s) == \A i \in 1..Len(s) : IsDigit(s[i])

RECURSIVE DigitsVal(_)
DigitsVal(s) == IF s = <<>> THEN 0
                ELSE DigitsVal(SubSeq(s, 1, Len(s) - 1)) * 10
                     + (Ord(s[Len(s)]) - 48)

\* float(str): [sign] digits [. digits], the value in hundredths;
\* ok = FALSE stands for ValueError.
float_str(s) ==
    LET neg == s # <<>> /\ Head(s) = "-"
        body == IF s # <<>> /\ Head(s) \in {"-", "+"} THEN Tail(s) ELSE s
        int == TakeUntilDot(body)
        frac == IF Len(int) = Len(body) THEN <<>>
                ELSE SubSeq(body, Len(int) + 2, Len(body))
        mag == DigitsVal(int) * 100
               + DigitsVal(SubSeq(frac \o <<"0", "0">>, 1, 2))
    IN  IF AllDigits(int) /\ AllDigits(frac) /\ Len(int) + Len(frac) > 0
        THEN [ok |-> TRUE, v |-> IF neg THEN 0 - mag ELSE mag]
        ELSE [ok |-> FALSE, v |-> 0]

\* float(amount) for a JSON number or string
float(v) == IF v.t = "num" THEN [ok |-> TRUE, v |-> v.n] ELSE float_str(v.s)

\* ------------------------------------------------------ SQLite comparison
\* BINARY collation on TEXT: memcmp, a proper prefix is smaller.
RECURSIVE TextLessFrom(_, _, _)
TextLessFrom(a, b, i) ==
    IF i > Len(b) THEN FALSE
    ELSE IF i > Len(a) THEN TRUE
    ELSE IF Ord(a[i]) # Ord(b[i]) THEN Ord(a[i]) < Ord(b[i])
    ELSE TextLessFrom(a, b, i + 1)

TextLess(a, b) == TextLessFrom(a, b, 1)

\* ------------------------------------------------------- password hashing
\* werkzeug: generate_password_hash draws a random salt and stores it next
\* to the digest; check_password_hash recomputes the digest with that salt.
Digest(salt, password) == <<salt, password>>
generate_password_hash(password, salt) ==
    [salt |-> salt, digest |-> Digest(salt, password)]
check_password_hash(pwhash, password) ==
    Digest(pwhash.salt, password) = pwhash.digest

\* ------------------------------------------------------------------ inputs
DemoEmail == <<"h", "a", "r", "i", "k", "a">>
DemoPassword == <<"1", "2", "3", "4">>

\* The request bodies of register and login.
NoJson == [json |-> FALSE, email |-> JNull, password |-> JNull]
AuthBody(e, p) == [json |-> TRUE, email |-> e, password |-> p]
AuthInputs ==
    {NoJson,
     AuthBody(JStr(<<" ">>), JStr(<<"p">>)),
     AuthBody(JStr(<<"a">>), JStr(<<"p">>)),
     AuthBody(JStr(<<"a", " ">>), JStr(DemoPassword)),
     AuthBody(JStr(DemoEmail), JStr(DemoPassword)),
     AuthBody(JStr(DemoEmail), JStr(<<"p">>))}

\* The request bodies of POST /api/transactions: a valid body and every
\* body that differs from it in one field.
ANull == [t |-> "null", s |-> <<>>, n |-> 0]
ANum(n) == [t |-> "num", s |-> <<>>, n |-> n]
AStr(s) == [t |-> "str", s |-> s, n |-> 0]

Date2024 == <<"2", "0", "2", "4", "-", "0", "1", "-", "0", "1">>
Date2025 == <<"2", "0", "2", "5", "-", "0", "6", "-", "0", "1">>
Date2023 == <<"2", "0", "2", "3", "-", "0", "3", "-", "0", "3">>

TypeInputs == {JTxt("income"), JTxt("bonus"), TNull}
DateInputs == {JStr(Date2024), JStr(Date2025), JStr(Date2023), JStr(<<>>)}
AmountInputs == {ANum(500), ANum(0), ANum(-500), AStr(<<"0">>),
                 AStr(<<"a", "b", "c">>)}
CategoryInputs == {JTxt("food"), JTxt("")}
CategoryNameInputs == {JTxt("Food"), JTxt(""), TNull}

NoTxData == [json |-> FALSE, type |-> TNull, date |-> JNull,
             amount |-> ANull, category |-> TNull, categoryName |-> TNull]
BaseTxData == [json |-> TRUE, type |-> JTxt("income"),
               date |-> JStr(Date2024), amount |-> ANum(500),
               category |-> JTxt("food"), categoryName |-> JTxt("Food")]
TxInputs ==
    {NoTxData}
    \cup {[BaseTxData EXCEPT !.type = v] : v \in TypeInputs}
    \cup {[BaseTxData EXCEPT !.date = v] : v \in DateInputs}
    \cup {[BaseTxData EXCEPT !.amount = v] : v \in AmountInputs}
    \cup {[BaseTxData EXCEPT !.category = v] : v \in CategoryInputs}
    \cup {[BaseTxData EXCEPT !.categoryName = v] : v \in CategoryNameInputs}

DeleteIds == 1..MaxDeleteId

\* app.permanent_session_lifetime = timedelta(days=7)
Lifetime == 7

\* The workers that serve requests at the same time.
Workers == 1..NumWorkers

\* ------------------------------------------------------------------- state
VARIABLES
    db_users,         \* table users: set of rows [id, email, password]
    seq_users,        \* sqlite_sequence entry of users (AUTOINCREMENT)
    db_transactions,  \* table transactions: rows in rowid order
    seq_transactions, \* sqlite_sequence entry of transactions
    session,          \* per browser: the signed cookie in its cookie jar
    last,             \* the last request and its response
    nreq,             \* number of requests handled
    now,              \* the clock, in days
    inflight          \* per worker: the request it is handling, step by step

vars == <<db_users, seq_users, db_transactions, seq_transactions,
          session, last, nreq, now, inflight>>

NoEmail == <<>>

\* A cookie: the session's contents and the day it was signed.
EmptySession == [user_email |-> NoEmail, permanent |-> FALSE, issued |-> 0]

\* A worker's request: pc is the step it is at, op the handler, sid the
\* browser and cookie the session of the request (modified: the handler
\* wrote it), user_email what require_user returned, tx_id, email, password
\* and salt the values of the request and of its hash, rowcount and c what
\* a statement returned, lock whether its connection holds the write lock
\* of the database file, status the response.
Idle == [pc |-> "idle", op |-> "none", sid |-> 0, cookie |-> EmptySession,
         modified |-> FALSE, user_email |-> NoEmail, tx_id |-> 0,
         email |-> NoEmail, password |-> <<>>, salt |-> 0,
         rowcount |-> 0, c |-> 0, lock |-> FALSE, status |-> 0]

\* The last request and its response.  op, sid, password, data and id (of a
\* delete) are the request; status, error, ok, id (of a create) and rows are
\* the response; email is the e-mail the request names (register, login) or
\* the user it was served for (transactions).  Fields that an operation
\* does not use keep these values.
NoResponse == [op |-> "none", sid |-> 0, status |-> 0, error |-> "",
               ok |-> FALSE, email |-> NoEmail, password |-> <<>>,
               id |-> 0, data |-> NoTxData, rows |-> <<>>]

\* init_db on a fresh database file, no cookie in any browser
Fresh ==
    /\ db_users = {}
    /\ seq_users = 0
    /\ db_transactions = <<>>
    /\ seq_transactions = 0
    /\ session = [s \in Sessions |-> EmptySession]
    /\ last = NoResponse
    /\ nreq = 0
    /\ now = 0

\* Requests served one after the other: none is ever in flight.
Init == Fresh /\ inflight = <<>>

\* Requests served step by step: every worker is idle.
InitWorkers == Fresh /\ inflight = [w \in Workers |-> Idle]

\* ------------------------------------------------------------ SQL helpers
\* SELECT * FROM users WHERE email = ?
UsersByEmail(email) == {u \in db_users : u.email = email}

\* Variant: the email column without its UNIQUE constraint.
UserInsertFails_NoUnique(email) == FALSE

\* INSERT INTO users: the UNIQUE constraint on email raises IntegrityError
UserInsertFails(email) == UsersByEmail(email) # {}

\* Variant: an INSERT INTO users that is never committed.
UsersAfterInsert_NoCommit(email, pwhash) == db_users

\* INSERT INTO users (email, password) VALUES (?, ?); commit
UsersAfterInsert(email, pwhash) ==
    db_users \cup {[id |-> seq_users + 1, email |-> email,
                    password |-> pwhash]}

\* ------------------------------------------------------- session cookie
\* The browser sends a cookie until the Expires it was set with, the day it
\* was signed plus permanent_session_lifetime.
CookieSent(c) == now < c.issued + Lifetime

\* The signer rejects a cookie older than permanent_session_lifetime.
SignatureFresh(c) == now - c.issued <= Lifetime

\* The session of a request: the cookie's contents, or an empty session when
\* the cookie is not sent or is rejected.
open_session(sid) ==
    IF CookieSent(session[sid]) /\ SignatureFresh(session[sid])
    THEN session[sid]
    ELSE EmptySession

\* Variant: a cookie that is set only when the handler wrote the session.
save_session_NoRefresh(sid, s, modified) ==
    IF modified /\ s.permanent THEN [s EXCEPT !.issued = now]
    ELSE IF modified THEN EmptySession
    ELSE session[sid]

\* The cookie in the jar after the response, as Flask's session interface
\* sets it with the configuration app.py leaves at its defaults
\* (SESSION_REFRESH_EACH_REQUEST is on): a permanent session is signed and
\* set again with every response; an empty session that the handler wrote
\* deletes the cookie; otherwise no cookie is set.
save_session(sid, s, modified) ==
    IF s.permanent THEN [s EXCEPT !.issued = now]
    ELSE IF modified THEN EmptySession
    ELSE session[sid]

\* Variant: a sign-in that keeps the user a session already has.
bind_session_KeepBound(s, email) ==
    IF s.user_email # NoEmail THEN s
    ELSE [s EXCEPT !.permanent = TRUE, !.user_email = email]

\* session.permanent = True; session['user_email'] = email
bind_session(s, email) ==
    [s EXCEPT !.permanent = TRUE, !.user_email = email]

\* Variant: a handler that clears the session where it does not write it.
session_untouched_Clear(sid) ==
    [session EXCEPT ![sid] = EmptySession]

\* The cookie jars after a response of a handler that did not write the
\* session.
session_untouched(sid) ==
    [session EXCEPT ![sid] = save_session(sid, open_session(sid), FALSE)]

\* The cookie jars after a response of a handler that left session s.
session_written(sid, s) ==
    [session EXCEPT ![sid] = save_session(sid, s, TRUE)]

\* require_user: the session's e-mail, or None (here NoEmail)
require_user(sid) ==
    IF open_session(sid).user_email = NoEmail THEN NoEmail
    ELSE open_session(sid).user_email

\* ---------------------------------------------------------------- handlers
register(sid, data, salt) ==
    LET email == strip(OrEmpty(data.email))
        password == OrEmpty(data.password)
        hashed_password == generate_password_hash(password, salt)
        req == [NoResponse EXCEPT !.op = "register", !.sid = sid,
                                  !.email = email, !.password = password]
    IN
    /\ nreq < MaxRequests
    /\ nreq' = nreq + 1
    /\ UNCHANGED <<now, inflight>>
    /\ UNCHANGED <<db_transactions, seq_transactions>>
    /\ IF ~data.json
       THEN /\ last' = [req EXCEPT !.status = 400,
                                   !.error = "Request must be JSON"]
            /\ UNCHANGED <<db_users, seq_users>>
            /\ session' = session_untouched(sid)
       ELSE IF email = <<>> \/ password = <<>>
       THEN /\ last' = [req EXCEPT !.status = 400,
                            !.error = "Email and password are required"]
            /\ UNCHANGED <<db_users, seq_users>>
            /\ session' = session_untouched(sid)
       ELSE IF UserInsertFails(email)
       THEN /\ last' = [req EXCEPT !.status = 409,
                            !.error = "User  with this email already exists"]
            /\ UNCHANGED <<db_users, seq_users>>
            /\ session' = session_untouched(sid)
       ELSE /\ db_users' = UsersAfterInsert(email, hashed_password)
            /\ seq_users' = seq_users + 1
            /\ session' = session_written(sid,
                              bind_session(open_session(sid), email))
            /\ last' = [req EXCEPT !.status = 201, !.ok = TRUE]

\* Variant: a login that answers an unknown email differently.
login_Reveal(sid, data) ==
    LET email == strip(OrEmpty(data.email))
        password == OrEmpty(data.password)
        user == UsersByEmail(email)
        req == [NoResponse EXCEPT !.op = "login", !.sid = sid,
                                  !.email = email, !.password = password]
    IN
    /\ nreq < MaxRequests
    /\ nreq' = nreq + 1
    /\ UNCHANGED <<now, inflight>>
    /\ UNCHANGED <<db_users, seq_users, db_transactions, seq_transactions>>
    /\ IF ~data.json
       THEN /\ last' = [req EXCEPT !.status = 400,
                                   !.error = "Request must be JSON"]
            /\ session' = session_untouched(sid)
       ELSE IF email = <<>> \/ password = <<>>
       THEN /\ last' = [req EXCEPT !.status = 400,
                            !.error = "Email and password are required"]
            /\ session' = session_untouched(sid)
       ELSE IF user = {}
       THEN /\ last' = [req EXCEPT !.status = 404,
                                   !.error = "No such user"]
            /\ session' = session_untouched(sid)
       ELSE IF \A u \in user : check_password_hash(u.password, password)
       THEN /\ session' = session_written(sid,
                              bind_session(open_session(sid), email))
            /\ last' = [req EXCEPT !.status = 200, !.ok = TRUE]
       ELSE /\ last' = [req EXCEPT !.status = 401,
                                   !.error = "Invalid email or password"]
            /\ session' = session_untouched(sid)

login(sid, data) ==
    LET email == strip(OrEmpty(data.email))
        password == OrEmpty(data.password)
        user == UsersByEmail(email)
        req == [NoResponse EXCEPT !.op = "login", !.sid = sid,
                                  !.email = email, !.password = password]
    IN
    /\ nreq < MaxRequests
    /\ nreq' = nreq + 1
    /\ UNCHANGED <<now, inflight>>
    /\ UNCHANGED <<db_users, seq_users, db_transactions, seq_transactions>>
    /\ IF ~data.json
       THEN /\ last' = [req EXCEPT !.status = 400,
                                   !.error = "Request must be JSON"]
            /\ session' = session_untouched(sid)
       ELSE IF email = <<>> \/ password = <<>>
       THEN /\ last' = [req EXCEPT !.status = 400,
                            !.error = "Email and password are required"]
            /\ session' = session_untouched(sid)
       ELSE IF user # {} /\ \A u \in user :
                               check_password_hash(u.password, password)
       THEN /\ session' = session_written(sid,
                              bind_session(open_session(sid), email))
            /\ last' = [req EXCEPT !.status = 200, !.ok = TRUE]
       ELSE /\ last' = [req EXCEPT !.status = 401,
                                   !.error = "Invalid email or password"]
            /\ session' = session_untouched(sid)

\* Variant: a logout that leaves user_email in the session.
logout_NoPop(sid) ==
    /\ nreq < MaxRequests
    /\ nreq' = nreq + 1
    /\ UNCHANGED <<now, inflight>>
    /\ session' = session_written(sid, open_session(sid))
    /\ last' = [NoResponse EXCEPT !.op = "logout", !.sid = sid,
                                  !.status = 200, !.ok = TRUE]
    /\ UNCHANGED <<db_users, seq_users, db_transactions, seq_transactions>>

\* Variant: a logout that refuses a session without a user.
logout_RequireUser(sid) ==
    /\ nreq < MaxRequests
    /\ nreq' = nreq + 1
    /\ UNCHANGED <<now, inflight>>
    /\ session' = session_written(sid,
                      [open_session(sid) EXCEPT !.user_email = NoEmail])
    /\ last' = IF require_user(sid) = NoEmail
               THEN [NoResponse EXCEPT !.op = "logout", !.sid = sid,
                        !.status = 401, !.error = "Not authenticated"]
               ELSE [NoResponse EXCEPT !.op = "logout", !.sid = sid,
                                       !.status = 200, !.ok = TRUE]
    /\ UNCHANGED <<db_users, seq_users, db_transactions, seq_transactions>>

logout(sid) ==
    /\ nreq < MaxRequests
    /\ nreq' = nreq + 1
    /\ UNCHANGED <<now, inflight>>
    /\ session' = session_written(sid,
                      [open_session(sid) EXCEPT !.user_email = NoEmail])
    /\ last' = [NoResponse EXCEPT !.op = "logout", !.sid = sid,
                                  !.status = 200, !.ok = TRUE]
    /\ UNCHANGED <<db_users, seq_users, db_transactions, seq_transactions>>

\* The table is kept in rowid order.
\* SELECT ... FROM transactions WHERE user_email = ?
TransactionsOf(table, user_email) ==
    SelectSeq(table, LAMBDA r : r.user_email = user_email)

\* Variant: ORDER BY date ASC.
RowBefore_Asc(r, q, tie_asc) ==
    \/ TextLess(r.date, q.date)
    \/ /\ q.date = r.date
       /\ IF tie_asc THEN r.id < q.id ELSE r.id > q.id

\* ORDER BY date DESC: r comes before q.  Rows with equal dates come in an
\* order SQL leaves open; tie_asc picks ascending or descending rowid.
RowBefore(r, q, tie_asc) ==
    \/ TextLess(q.date, r.date)
    \/ /\ q.date = r.date
       /\ IF tie_asc THEN r.id < q.id ELSE r.id > q.id

RECURSIVE InsertRow(_, _, _)
InsertRow(sorted, r, tie_asc) ==
    IF sorted = <<>> THEN <<r>>
    ELSE IF RowBefore(r, Head(sorted), tie_asc) THEN <<r>> \o sorted
    ELSE <<Head(sorted)>> \o InsertRow(Tail(sorted), r, tie_asc)

RECURSIVE OrderByDateDesc(_, _)
OrderByDateDesc(rows, tie_asc) ==
    IF rows = <<>> THEN <<>>
    ELSE InsertRow(OrderByDateDesc(Tail(rows), tie_asc), Head(rows), tie_asc)

\* Variant: a count that always answers 0.
CountOf_Zero(table, user_email) == 0

\* SELECT COUNT(*) FROM transactions WHERE user_email = ?
CountOf(table, user_email) == Len(TransactionsOf(table, user_email))

\* Variant: the rowid of the last row given again.
NextRowId_LastId(seq, table) ==
    LET m == IF table = <<>> THEN 0 ELSE table[Len(table)].id
    IN  IF seq > m THEN seq ELSE m

\* the rowid an AUTOINCREMENT table gives the next row
NextRowId(seq, table) ==
    LET m == IF table = <<>> THEN 0 ELSE table[Len(table)].id
    IN  (IF seq > m THEN seq ELSE m) + 1

\* Variant: DELETE FROM transactions WHERE id = ?
DeleteWhere_AnyOwner(table, tx_id, user_email) ==
    SelectSeq(table, LAMBDA r : ~(r.id = tx_id))

\* DELETE FROM transactions WHERE id = ? AND user_email = ?
DeleteWhere(table, tx_id, user_email) ==
    SelectSeq(table, LAMBDA r : ~(r.id = tx_id /\ r.user_email = user_email))

\* GET /api/transactions
transactions_GET(sid, tie_asc) ==
    LET user_email == require_user(sid)
        req == [NoResponse EXCEPT !.op = "list", !.sid = sid]
    IN
    /\ nreq < MaxRequests
    /\ nreq' = nreq + 1
    /\ UNCHANGED <<now, inflight>>
    /\ UNCHANGED <<db_users, seq_users, db_transactions, seq_transactions>>
    /\ session' = session_untouched(sid)
    /\ IF user_email = NoEmail
       THEN last' = [req EXCEPT !.status = 401,
                                !.error = "Not authenticated"]
       ELSE last' = [req EXCEPT !.status = 200, !.ok = TRUE,
                        !.email = user_email,
                        !.rows = OrderByDateDesc(
                           TransactionsOf(db_transactions, user_email),
                           tie_asc)]

\* POST /api/transactions
transactions_POST(sid, data) ==
    LET user_email == require_user(sid)
        amount == float(data.amount)
        new_id == NextRowId(seq_transactions, db_transactions)
        req == [NoResponse EXCEPT !.op = "create", !.sid = sid,
                                  !.data = data]
    IN
    /\ nreq < MaxRequests
    /\ nreq' = nreq + 1
    /\ UNCHANGED <<now, inflight>>
    /\ UNCHANGED <<db_users, seq_users>>
    /\ session' = session_untouched(sid)
    /\ IF user_email = NoEmail
       THEN /\ last' = [req EXCEPT !.status = 401,
                                   !.error = "Not authenticated"]
            /\ UNCHANGED <<db_transactions, seq_transactions>>
       ELSE IF ~data.json
       THEN /\ last' = [req EXCEPT !.status = 400,
                                   !.error = "Request must be JSON"]
            /\ UNCHANGED <<db_transactions, seq_transactions>>
       ELSE IF ~(/\ TxtTruthy(data.type)
                 /\ Truthy(data.date)
                 /\ AmountTruthy(data.amount)
                 /\ TxtTruthy(data.category))
       THEN /\ last' = [req EXCEPT !.status = 400,
                            !.error = "Missing required transaction fields"]
            /\ UNCHANGED <<db_transactions, seq_transactions>>
       ELSE IF ~amount.ok
       THEN /\ last' = [req EXCEPT !.status = 400,
                            !.error = "Amount must be a valid number"]
            /\ UNCHANGED <<db_transactions, seq_transactions>>
       ELSE /\ db_transactions' = Append(db_transactions,
                   [id |-> new_id, user_email |-> user_email,
                    type |-> data.type.s, date |-> data.date.s,
                    amount |-> amount.v, category |-> data.category.s,
                    categoryName |-> data.categoryName])
            /\ seq_transactions' = new_id
            /\ last' = [req EXCEPT !.status = 201, !.ok = TRUE,
                                   !.email = user_email, !.id = new_id]

\* Variant: a delete by id alone that checks the owner afterwards.
delete_transaction_Late404(sid, tx_id) ==
    LET user_email == require_user(sid)
        after == DeleteWhere_AnyOwner(db_transactions, tx_id, user_email)
        owned == DeleteWhere(db_transactions, tx_id, user_email)
        rowcount == Len(db_transactions) - Len(owned)
        req == [NoResponse EXCEPT !.op = "delete", !.sid = sid,
                                  !.id = tx_id]
    IN
    /\ nreq < MaxRequests
    /\ nreq' = nreq + 1
    /\ UNCHANGED <<now, inflight>>
    /\ UNCHANGED <<db_users, seq_users, seq_transactions>>
    /\ session' = session_untouched(sid)
    /\ IF user_email = NoEmail
       THEN /\ last' = [req EXCEPT !.status = 401,
                                   !.error = "Not authenticated"]
            /\ UNCHANGED db_transactions
       ELSE /\ db_transactions' = after
            /\ last' = IF rowcount = 0
                       THEN [req EXCEPT !.status = 404, !.error =
                          "Transaction not found or not authorized to delete",
                          !.email = user_email]
                       ELSE [req EXCEPT !.status = 200, !.ok = TRUE,
                                        !.email = user_email]

\* DELETE /api/transactions/<tx_id>
delete_transaction(sid, tx_id) ==
    LET user_email == require_user(sid)
        after == DeleteWhere(db_transactions, tx_id, user_email)
        rowcount == Len(db_transactions) - Len(after)
        req == [NoResponse EXCEPT !.op = "delete", !.sid = sid,
                                  !.id = tx_id]
    IN
    /\ nreq < MaxRequests
    /\ nreq' = nreq + 1
    /\ UNCHANGED <<now, inflight>>
    /\ UNCHANGED <<db_users, seq_users, seq_transactions>>
    /\ session' = session_untouched(sid)
    /\ IF user_email = NoEmail
       THEN /\ last' = [req EXCEPT !.status = 401,
                                   !.error = "Not authenticated"]
            /\ UNCHANGED db_transactions
       ELSE /\ db_transactions' = after
            /\ last' = IF rowcount = 0
                       THEN [req EXCEPT !.status = 404, !.error =
                          "Transaction not found or not authorized to delete",
                          !.email = user_email]
                       ELSE [req EXCEPT !.status = 200, !.ok = TRUE,
                                        !.email = user_email]

demo_transactions == <<
    [type |-> "income", date |-> <<"2", "0", "2", "0", "-", "0", "1", "-", "1", "0">>,
     amount |-> <<"5", "2", "0", "0", "0", ".", "0", "0">>,
     category |-> "salary", categoryName |-> "Salary"],
    [type |-> "expense", date |-> <<"2", "0", "2", "0", "-", "0", "3", "-", "1", "5">>,
     amount |-> <<"1", "8", "0", "0", ".", "0", "0">>,
     category |-> "transport", categoryName |-> "Transport"],
    [type |-> "income", date |-> <<"2", "0", "2", "1", "-", "0", "6", "-", "1", "8">>,
     amount |-> <<"1", "5", "0", "0", "0", ".", "0", "0">>,
     category |-> "business", categoryName |-> "Business"],
    [type |-> "expense", date |-> <<"2", "0", "2", "2", "-", "0", "2", "-", "0", "8">>,
     amount |-> <<"7", "0", "0", "0", ".", "0", "0">>,
     category |-> "housing", categoryName |-> "Housing"],
    [type |-> "expense", date |-> <<"2", "0", "2", "3", "-", "0", "8", "-", "1", "2">>,
     amount |-> <<"1", "2", "0", "0", ".", "0", "0">>,
     category |-> "food", categoryName |-> "Food"],
    [type |-> "income", date |-> <<"2", "0", "2", "4", "-", "1", "1", "-", "2", "5">>,
     amount |-> <<"1", "0", "0", "0", "0", ".", "0", "0">>,
     category |-> "investment", categoryName |-> "Investment"],
    [type |-> "expense", date |-> <<"2", "0", "2", "5", "-", "0", "1", "-", "0", "5">>,
     amount |-> <<"9", "0", "0", ".", "0", "0">>,
     category |-> "entertainment", categoryName |-> "Entertainment"],
    [type |-> "income", date |-> <<"2", "0", "2", "5", "-", "0", "2", "-", "1", "4">>,
     amount |-> <<"4", "8", "0", "0", "0", ".", "0", "0">>,
     category |-> "salary", categoryName |-> "Salary"],
    [type |-> "expense", date |-> <<"2", "0", "2", "5", "-", "0", "3", "-", "2", "2">>,
     amount |-> <<"6", "5", "0", ".", "0", "0">>,
     category |-> "shopping", categoryName |-> "Shopping"],
    [type |-> "expense", date |-> <<"2", "0", "2", "5", "-", "0", "4", "-", "1", "1">>,
     amount |-> <<"2", "0", "0", "0", ".", "0", "0">>,
     category |-> "health", categoryName |-> "Health"],
    [type |-> "income", date |-> <<"2", "0", "2", "5", "-", "0", "5", "-", "1", "9">>,
     amount |-> <<"5", "6", "0", "0", "0", ".", "0", "0">>,
     category |-> "business", categoryName |-> "Business"],
    [type |-> "expense", date |-> <<"2", "0", "2", "5", "-", "0", "6", "-", "2", "7">>,
     amount |-> <<"1", "2", "0", "0", ".", "0", "0">>,
     category |-> "education", categoryName |-> "Education"],
    [type |-> "expense", date |-> <<"2", "0", "2", "5", "-", "0", "7", "-", "0", "4">>,
     amount |-> <<"1", "7", "0", "0", ".", "0", "0">>,
     category |-> "food", categoryName |-> "Food"],
    [type |-> "income", date |-> <<"2", "0", "2", "5", "-", "0", "8", "-", "0", "1">>,
     amount |-> <<"4", "0", "0", "0", ".", "0", "0">>,
     category |-> "gifts", categoryName |-> "Gifts"],
    [type |-> "expense", date |-> <<"2", "0", "2", "5", "-", "0", "6", "-", "1", "7">>,
     amount |-> <<"1", "3", "0", "0", ".", "0", "0">>,
     category |-> "shopping", categoryName |-> "Shopping"],
    [type |-> "income", date |-> <<"2", "0", "2", "5", "-", "0", "6", "-", "2", "4">>,
     amount |-> <<"5", "2", "0", "0", "0", ".", "0", "0">>,
     category |-> "salary", categoryName |-> "Salary"],
    [type |-> "expense", date |-> <<"2", "0", "2", "5", "-", "0", "7", "-", "0", "1">>,
     amount |-> <<"3", "0", "0", "0", ".", "0", "0">>,
     category |-> "health", categoryName |-> "Health"],
    [type |-> "expense", date |-> <<"2", "0", "2", "5", "-", "0", "7", "-", "0", "8">>,
     amount |-> <<"1", "8", "0", "0", ".", "0", "0">>,
     category |-> "education", categoryName |-> "Education"],
    [type |-> "income", date |-> <<"2", "0", "2", "5", "-", "0", "7", "-", "1", "5">>,
     amount |-> <<"6", "0", "0", "0", ".", "0", "0">>,
     category |-> "gifts", categoryName |-> "Gifts"],
    [type |-> "expense", date |-> <<"2", "0", "2", "5", "-", "0", "7", "-", "2", "2">>,
     amount |-> <<"9", "5", "0", ".", "0", "0">>,
     category |-> "transport", categoryName |-> "Transport"],
    [type |-> "income", date |-> <<"2", "0", "2", "5", "-", "0", "7", "-", "2", "9">>,
     amount |-> <<"1", "0", "0", "0", "0", ".", "0", "0">>,
     category |-> "other-income", categoryName |-> "Other"],
    [type |-> "expense", date |-> <<"2", "0", "2", "5", "-", "0", "8", "-", "0", "5">>,
     amount |-> <<"1", "3", "5", "0", ".", "0", "0">>,
     category |-> "entertainment", categoryName |-> "Entertainment"]
>>

\* The row that setup_demo's i-th INSERT stores: the amount, given as
\* text, is converted by the REAL affinity of the column.
DemoRow(i, seq) ==
    [id |-> seq + i, user_email |-> DemoEmail,
     type |-> demo_transactions[i].type,
     date |-> demo_transactions[i].date,
     amount |-> float_str(demo_transactions[i].amount).v,
     category |-> demo_transactions[i].category,
     categoryName |-> JTxt(demo_transactions[i].categoryName)]

\* POST /api/setup_demo
setup_demo(sid, salt) ==
    LET hashed_password == generate_password_hash(DemoPassword, salt)
        c == CountOf(db_transactions, DemoEmail)
        first_id == NextRowId(seq_transactions, db_transactions)
    IN
    /\ nreq < MaxRequests
    /\ nreq' = nreq + 1
    /\ UNCHANGED <<now, inflight>>
    /\ session' = session_untouched(sid)
    /\ IF UserInsertFails(DemoEmail)
       THEN UNCHANGED <<db_users, seq_users>>
       ELSE /\ db_users' = UsersAfterInsert(DemoEmail, hashed_password)
            /\ seq_users' = seq_users + 1
    /\ IF c = 0
       THEN /\ db_transactions' = db_transactions \o
                   [i \in 1..Len(demo_transactions) |->
                       DemoRow(i, first_id - 1)]
            /\ seq_transactions' = first_id - 1 + Len(demo_transactions)
       ELSE UNCHANGED <<db_transactions, seq_transactions>>
    /\ last' = [NoResponse EXCEPT !.op = "setup_demo", !.sid = sid,
                                  !.status = 200, !.ok = TRUE]

Next ==
    \/ \E sid \in Sessions, data \in AuthInputs, salt \in Salts :
          register(sid, data, salt)
    \/ \E sid \in Sessions, data \in AuthInputs : login(sid, data)
    \/ \E sid \in Sessions : logout(sid)
    \/ \E sid \in Sessions, tie_asc \in BOOLEAN :
          transactions_GET(sid, tie_asc)
    \/ \E sid \in Sessions, data \in TxInputs : transactions_POST(sid, data)
    \/ \E sid \in Sessions, tx_id \in DeleteIds :
          delete_transaction(sid, tx_id)
    \/ \E sid \in Sessions, salt \in Salts : setup_demo(sid, salt)

Spec == Init /\ [][Next]_vars

\* ------------------------------------------------------- passage of time
\* A day passes.
Tick ==
    /\ now < MaxClock
    /\ now' = now + 1
    /\ UNCHANGED <<db_users, seq_users, db_transactions, seq_transactions,
                   session, last, nreq, inflight>>

\* The body one user signs in with.
TimedAuth == AuthBody(JStr(<<"a">>), JStr(<<"p">>))

\* The requests of one user's browsers over the days.
NextTimed ==
    \/ \E sid \in Sessions, salt \in Salts : register(sid, TimedAuth, salt)
    \/ \E sid \in Sessions : login(sid, TimedAuth)
    \/ \E sid \in Sessions : logout(sid)
    \/ \E sid \in Sessions : transactions_GET(sid, TRUE)
    \/ Tick

SpecTimed == Init /\ [][NextTimed]_vars

\* --------------------------------------------- requests served at a time
\* Each worker serves one request on a connection of its own, statement by
\* statement.  A statement that writes takes the write lock of the database
\* file and waits while another connection holds it; the lock is released
\* by commit, or when the connection is closed after the response.  What a
\* connection wrote is in the table from its commit on.

\* Variant: a database file without a write lock.
LockFree_None(w) == TRUE

\* No other connection holds the write lock.
LockFree(w) == \A v \in Workers \ {w} : ~inflight[v].lock

\* The response is sent: the cookie is set and the connection closed.
respond(w) ==
    LET r == inflight[w] IN
    /\ r.pc = "respond"
    /\ inflight' = [inflight EXCEPT ![w] =
                       [r EXCEPT !.pc = "done", !.lock = FALSE]]
    /\ session' = [session EXCEPT ![r.sid] =
                      save_session(r.sid, r.cookie, r.modified)]
    /\ UNCHANGED <<db_users, seq_users, db_transactions, seq_transactions,
                   last, nreq, now>>

\* delete_transaction: require_user
delete_begin(w, sid, tx_id) ==
    LET user_email == require_user(sid)
        r == [Idle EXCEPT !.op = "delete", !.sid = sid,
                          !.cookie = open_session(sid), !.tx_id = tx_id,
                          !.user_email = user_email]
    IN
    /\ inflight[w].pc = "idle"
    /\ inflight' = [inflight EXCEPT ![w] =
          IF user_email = NoEmail
          THEN [r EXCEPT !.pc = "respond", !.status = 401]
          ELSE [r EXCEPT !.pc = "execute"]]
    /\ UNCHANGED <<db_users, seq_users, db_transactions, seq_transactions,
                   session, last, nreq, now>>

\* delete_transaction: db.execute('DELETE ...')
delete_execute(w) ==
    LET r == inflight[w]
        after == DeleteWhere(db_transactions, r.tx_id, r.user_email)
    IN
    /\ r.op = "delete"
    /\ r.pc = "execute"
    /\ LockFree(w)
    /\ inflight' = [inflight EXCEPT ![w] =
          [r EXCEPT !.pc = "commit", !.lock = TRUE,
                    !.rowcount = Len(db_transactions) - Len(after)]]
    /\ UNCHANGED <<db_users, seq_users, db_transactions, seq_transactions,
                   session, last, nreq, now>>

\* delete_transaction: db.commit()
delete_commit(w) ==
    LET r == inflight[w] IN
    /\ r.op = "delete"
    /\ r.pc = "commit"
    /\ db_transactions' = DeleteWhere(db_transactions, r.tx_id, r.user_email)
    /\ inflight' = [inflight EXCEPT ![w] =
          [r EXCEPT !.pc = "rowcount", !.lock = FALSE]]
    /\ UNCHANGED <<db_users, seq_users, seq_transactions,
                   session, last, nreq, now>>

\* delete_transaction: the status by cursor.rowcount
delete_rowcount(w) ==
    LET r == inflight[w] IN
    /\ r.op = "delete"
    /\ r.pc = "rowcount"
    /\ inflight' = [inflight EXCEPT ![w] =
          [r EXCEPT !.pc = "respond",
                    !.status = IF r.rowcount = 0 THEN 404 ELSE 200]]
    /\ UNCHANGED <<db_users, seq_users, db_transactions, seq_transactions,
                   session, last, nreq, now>>

\* ================================================================ claims
Range(f) == {f[i] : i \in DOMAIN f}

\* The e-mail the session of the request in `last'` was bound to before it.
Requester == IF last'.sid \in Sessions
             THEN session[last'.sid].user_email ELSE NoEmail

\* What GET /api/transactions answers for `owner` on table `table`.
ListOf(table, owner) == OrderByDateDesc(TransactionsOf(table, owner), TRUE)

\* C1: a DELETE of a transaction under the session of a user who does not
\* own it answers 404 and leaves the table as it was, the transaction in
\* its owner's list; a list answers only rows of the session's user; no request
\* removes a row that belongs to another user than the one of its session.
C1_OwnerIsolation ==
    [][ /\ (last'.op = "delete" /\ Requester # NoEmail)
           => \A i \in DOMAIN db_transactions :
                 LET t == db_transactions[i] IN
                 (last'.id = t.id /\ Requester # t.user_email)
                 => /\ last'.status = 404
                    /\ db_transactions' = db_transactions
                    /\ t \in Range(ListOf(db_transactions, t.user_email))
        /\ (db_transactions' # db_transactions)
           => \A i \in DOMAIN db_transactions :
                 LET t == db_transactions[i] IN
                 (\A j \in DOMAIN db_transactions' :
                     db_transactions'[j] # t)
                 => /\ last'.op = "delete"
                    /\ Requester = t.user_email
        /\ (last'.op = "list" /\ last'.ok)
           => \A k \in DOMAIN last'.rows :
                 last'.rows[k].user_email = Requester
      ]_vars

\* C1 witness: a delete was answered 404 although a row with that id
\* exists; it belongs to another user than the requester.
C1_Witness ==
    /\ last.op = "delete"
    /\ last.status = 404
    /\ \E i \in DOMAIN db_transactions :
          /\ db_transactions[i].id = last.id
          /\ db_transactions[i].user_email # last.email

\* C2 (as claimed): a request other than register or login that comes
\* without an authenticated session changes neither table.
C2_AnonymousChangesNothing ==
    [][ (last'.op \notin {"register", "login"} /\ Requester = NoEmail)
        => /\ db_users' = db_users
           /\ db_transactions' = db_transactions ]_vars

\* C3: logout leaves the session without a user; on a session without a
\* user list, create and delete answer 401; and such a session gets a user
\* only by a successful register or login made on it.
C3_LoggedOutIsUnauthenticated ==
    [][ \A s \in Sessions :
          /\ (last'.op = "logout" /\ last'.sid = s)
             => session'[s].user_email = NoEmail
          /\ ( /\ session[s].user_email = NoEmail
               /\ last'.sid = s
               /\ last'.op \in {"list", "create", "delete"} )
             => /\ last'.status = 401
                /\ last'.error = "Not authenticated"
                /\ session'[s].user_email = NoEmail
          /\ (session[s].user_email = NoEmail
                 /\ session'[s].user_email # NoEmail)
             => /\ last'.sid = s
                /\ last'.op \in {"register", "login"}
                /\ last'.ok
      ]_vars

\* C3 witness: a list answered 401 on a session that had been logged in.
C3_Witness ==
    /\ last.op = "list"
    /\ last.status = 401
    /\ session[last.sid].permanent
    /\ session[last.sid].user_email = NoEmail

\* C4: a register with a password for an e-mail that is already registered
\* answers 409, leaves the users table (so the stored hash) as it was and
\* does not touch any session; the stored hash still verifies the passwords
\* it verified before.
C4_DuplicateRegister ==
    [][ ( /\ last'.op = "register"
          /\ last'.password # <<>>
          /\ \E u \in db_users : u.email = last'.email )
        => /\ last'.status = 409
           /\ db_users' = db_users
           /\ session' = session
           /\ \A u \in db_users' : u.email = last'.email =>
                 \E v \in db_users : v.email = u.email
                                      /\ v.password = u.password
      ]_vars

\* C4 witness: a register was answered 409 and the password it carried
\* does not verify against the stored hash of that e-mail.
C4_Witness ==
    /\ last.op = "register"
    /\ last.status = 409
    /\ \E u \in db_users :
          /\ u.email = last.email
          /\ ~check_password_hash(u.password, last.password)

\* C5: a login with a non-empty e-mail and password answers 401 with the
\* body "Invalid email or password" both when the e-mail is not registered
\* and when the password is wrong, and changes neither session nor tables.
C5_LoginFailuresAlike ==
    [][ ( /\ last'.op = "login"
          /\ last'.email # <<>>
          /\ last'.password # <<>>
          /\ \/ UsersByEmail(last'.email) = {}
             \/ \E u \in UsersByEmail(last'.email) :
                   ~check_password_hash(u.password, last'.password) )
        => /\ last'.status = 401
           /\ last'.error = "Invalid email or password"
           /\ ~last'.ok
           /\ session' = session
           /\ db_users' = db_users
           /\ db_transactions' = db_transactions
      ]_vars

\* C5 witness: a login with a wrong password for a registered e-mail was
\* answered 401.
C5_Witness ==
    /\ last.op = "login"
    /\ last.status = 401
    /\ \E u \in db_users :
          /\ u.email = last.email
          /\ ~check_password_hash(u.password, last.password)

\* The fields other than the amount of a create request are valid.
OtherFieldsValid(data) ==
    /\ data.json
    /\ data.type.t = "str" /\ data.type.s \in {"income", "expense"}
    /\ Truthy(data.date)
    /\ TxtTruthy(data.category)

\* C6 (as claimed): on an authenticated session a create whose other
\* fields are valid is accepted (201, a new row) exactly when its amount is
\* a number >= 0, and is answered 400 otherwise.
C6_AmountValidation ==
    ( /\ last.op = "create"
      /\ session[last.sid].user_email # NoEmail
      /\ OtherFieldsValid(last.data)
      /\ last.data.amount.t = "num" )
    => IF last.data.amount.n >= 0
       THEN /\ last.status = 201
            /\ \E t \in Range(db_transactions) : t.id = last.id
       ELSE last.status = 400

\* A create request the specification calls valid.
ValidTxData(data) ==
    /\ OtherFieldsValid(data)
    /\ \/ data.amount.t = "num" /\ data.amount.n >= 0
       \/ data.amount.t = "str" /\ float_str(data.amount.s).ok
                                /\ float_str(data.amount.s).v >= 0

\* categoryName as the specification stores it: the category when it is
\* omitted or blank.
DefaultedCategoryName(data) ==
    IF TxtTruthy(data.categoryName) THEN data.categoryName
    ELSE JTxt(data.category.s)

\* C7 (as claimed): a valid create on an authenticated session succeeds,
\* and a list that follows it on the same session has a row with the id the
\* create answered, the submitted fields and the session's owner.
C7_CreateThenList ==
    [][ /\ ( /\ last'.op = "create"
             /\ Requester # NoEmail
             /\ ValidTxData(last'.data) )
           => last'.status = 201
        /\ ( /\ last.op = "create" /\ last.ok
             /\ ValidTxData(last.data)
             /\ last'.op = "list" /\ last'.sid = last.sid /\ last'.ok )
           => \E r \in Range(last'.rows) :
                 /\ r.id = last.id
                 /\ r.user_email = last.email
                 /\ r.type = last.data.type.s
                 /\ r.date = last.data.date.s
                 /\ r.amount = float(last.data.amount).v
                 /\ r.category = last.data.category.s
                 /\ r.categoryName = DefaultedCategoryName(last.data)
      ]_vars

\* C8 (as claimed): no row has a null or empty categoryName; a row created
\* without one has its category there.
C8_CategoryNameDefault ==
    /\ \A t \in Range(db_transactions) : TxtTruthy(t.categoryName)
    /\ (last.op = "create" /\ last.ok)
       => \A t \in Range(db_transactions) : t.id = last.id =>
             t.categoryName = DefaultedCategoryName(last.data)

\* C9 (as claimed): every row has type income or expense, a non-empty date,
\* a non-empty category and an amount >= 0; a create with another type, an
\* empty date or an empty category is answered 400.
C9_StoredRowsValid ==
    /\ \A t \in Range(db_transactions) :
          /\ t.type \in {"income", "expense"}
          /\ t.date # <<>>
          /\ t.category # ""
          /\ t.amount >= 0
    /\ ( /\ last.op = "create"
         /\ session[last.sid].user_email # NoEmail
         /\ last.data.json
         /\ ~OtherFieldsValid(last.data) )
       => last.status = 400

\* The calendar day of an ISO-8601 date, as the number yyyymmdd.
DateKey(d) == DigitsVal(SubSeq(d, 1, 4)) * 10000
              + DigitsVal(SubSeq(d, 6, 7)) * 100
              + DigitsVal(SubSeq(d, 9, 10))

\* C10: a list on a session of user X answers 200 with exactly the rows of
\* X in the table, each once, later calendar days first; with no rows of X
\* it answers 200 with the empty sequence.
C10_ListOwnedByDateDesc ==
    (last.op = "list" /\ session[last.sid].user_email # NoEmail)
    => LET X == session[last.sid].user_email
           owned == {t \in Range(db_transactions) : t.user_email = X}
       IN  /\ last.status = 200
           /\ Range(last.rows) = owned
           /\ Len(last.rows) = Cardinality(owned)
           /\ \A i, j \in DOMAIN last.rows :
                 i < j => DateKey(last.rows[i].date)
                          >= DateKey(last.rows[j].date)
           /\ owned = {} => last.rows = <<>>

\* C10 witness: a list answered rows in another order than they were
\* created in.
C10_Witness ==
    /\ last.op = "list"
    /\ last.ok
    /\ \E i, j \in DOMAIN last.rows :
          /\ i < j
          /\ last.rows[i].id > last.rows[j].id
          /\ DateKey(last.rows[i].date) > DateKey(last.rows[j].date)

\* ------------------------------------------------------------ C14 .. C20
\* C14: a successful register or login leaves the session bound to the
\* e-mail of that request, whatever it was bound to before; a create that
\* succeeds stores a row owned by the e-mail its session is bound to; and
\* the e-mail of a session changes only by a successful register or login
\* or by a logout on that session.
C14_SignInBindsSession ==
    [][ /\ (last'.op \in {"register", "login"} /\ last'.ok)
           => /\ last'.email # NoEmail
              /\ session'[last'.sid].user_email = last'.email
              /\ \E u \in db_users' : u.email = last'.email
        /\ (last'.op = "create" /\ last'.ok)
           => /\ Requester # NoEmail
              /\ Len(db_transactions') = Len(db_transactions) + 1
              /\ db_transactions'[Len(db_transactions')].user_email
                    = Requester
              /\ db_transactions'[Len(db_transactions')].id = last'.id
        /\ \A s \in Sessions :
              session'[s].user_email # session[s].user_email
              => /\ last'.sid = s
                 /\ \/ last'.op \in {"register", "login"} /\ last'.ok
                    \/ last'.op = "logout"
      ]_vars

\* C14 witness: the only browser that ever signed in has created a row as
\* another user and is now signed in as the demo user.
C14_Witness ==
    /\ last.op \in {"register", "login"}
    /\ last.ok
    /\ last.email = DemoEmail
    /\ session[last.sid].user_email = DemoEmail
    /\ \A s \in Sessions \ {last.sid} : ~session[s].permanent
    /\ \E i \in DOMAIN db_transactions :
          db_transactions[i].user_email # DemoEmail

\* C15: a logout answers 200 {ok: true} whatever the session holds, leaves
\* the session without a user and both tables as they were; a logout that
\* directly follows a logout on the same session changes nothing and answers
\* the same.
C15_LogoutIdempotent ==
    [][ (last'.op = "logout")
        => /\ last'.status = 200
           /\ last'.ok
           /\ last'.error = ""
           /\ session'[last'.sid].user_email = NoEmail
           /\ \A s \in Sessions \ {last'.sid} : session'[s] = session[s]
           /\ db_users' = db_users
           /\ seq_users' = seq_users
           /\ db_transactions' = db_transactions
           /\ seq_transactions' = seq_transactions
           /\ (last.op = "logout" /\ last.sid = last'.sid)
              => /\ session' = session
                 /\ last' = last
      ]_vars

\* C15 witness: a logout by a browser that never signed in.
C15_Witness ==
    /\ last.op = "logout"
    /\ last.status = 200
    /\ ~session[last.sid].permanent

\* C16: a request answered 400, 401, 404 or 409 leaves both tables and
\* their row counters as they were, and the user of every session.
C16_ErrorsChangeNothing ==
    [][ (last'.status \in {400, 401, 404, 409})
        => /\ db_users' = db_users
           /\ seq_users' = seq_users
           /\ db_transactions' = db_transactions
           /\ seq_transactions' = seq_transactions
           /\ \A s \in Sessions :
                 session'[s].user_email = session[s].user_email
      ]_vars

\* C16 witness: a delete answered 404 for a user who owns rows.
C16_Witness ==
    /\ last.op = "delete"
    /\ last.status = 404
    /\ last.email # NoEmail
    /\ \E i \in DOMAIN db_transactions :
          db_transactions[i].user_email = last.email

C18_FailedSignInKeepsSession ==
    [][ ( /\ last'.op \in {"register", "login"}
          /\ ~last'.ok
          /\ Requester # NoEmail )
        => /\ last'.status \in {400, 401, 409}
           /\ session'[last'.sid].user_email = Requester
           /\ session'[last'.sid].permanent
      ]_vars

\* C18 witness: a register or login failed on a session that has a user.
C18_Witness ==
    /\ last.op \in {"register", "login"}
    /\ last.status \in {400, 401, 409}
    /\ session[last.sid].user_email # NoEmail

\* C19: the user_email of every stored transaction is the e-mail of a row of
\* the users table.
C19_OwnersExist ==
    \A i \in DOMAIN db_transactions :
       \E u \in db_users : u.email = db_transactions[i].user_email

\* C19 witness: a created row of a user who registered.
C19_Witness ==
    /\ last.op = "create"
    /\ last.ok
    /\ last.email # DemoEmail
    /\ \E i \in DOMAIN db_transactions :
          /\ db_transactions[i].id = last.id
          /\ db_transactions[i].user_email = last.email

\* C20: setup_demo answers 200 and changes the user of no session; it adds
\* a user only when none has the demo e-mail, and then one whose hash
\* verifies the demo password, and changes no user that exists; it adds
\* the demo rows, owned by the demo user, only when that user owns no row;
\* a setup_demo that directly follows a setup_demo changes neither table.
C20_SetupDemoIdempotent ==
    [][ (last'.op = "setup_demo")
        => /\ last'.status = 200
           /\ last'.ok
           /\ \A s \in Sessions :
                 session'[s].user_email = session[s].user_email
           /\ db_users \subseteq db_users'
           /\ UsersByEmail(DemoEmail) # {} => db_users' = db_users
           /\ \A u \in db_users' \ db_users :
                 /\ u.email = DemoEmail
                 /\ check_password_hash(u.password, DemoPassword)
           /\ IF TransactionsOf(db_transactions, DemoEmail) # <<>>
              THEN /\ db_transactions' = db_transactions
                   /\ seq_transactions' = seq_transactions
              ELSE /\ Len(db_transactions')
                         = Len(db_transactions) + Len(demo_transactions)
                   /\ \A j \in DOMAIN db_transactions' :
                         j > Len(db_transactions)
                         => db_transactions'[j].user_email = DemoEmail
                   /\ \A i \in DOMAIN db_transactions :
                         db_transactions'[i] = db_transactions[i]
           /\ (last.op = "setup_demo")
              => /\ db_users' = db_users
                 /\ seq_users' = seq_users
                 /\ db_transactions' = db_transactions
                 /\ seq_transactions' = seq_transactions
      ]_vars

\* C20 witness: setup_demo ran although a user with the demo e-mail had
\* registered with another password; that user's hash is as it was and the
\* demo rows are stored.
C20_Witness ==
    /\ last.op = "setup_demo"
    /\ \E u \in db_users :
          /\ u.email = DemoEmail
          /\ ~check_password_hash(u.password, DemoPassword)
    /\ Len(TransactionsOf(db_transactions, DemoEmail))
          = Len(demo_transactions)

\* ------------------------------------------------- sign-ups at a time
\* register: the request body is read and the password hashed
register_begin(w, sid, data, salt) ==
    LET email == strip(OrEmpty(data.email))
        password == OrEmpty(data.password)
        r == [Idle EXCEPT !.op = "register", !.sid = sid,
                          !.cookie = open_session(sid), !.email = email,
                          !.password = password, !.salt = salt]
    IN
    /\ inflight[w].pc = "idle"
    /\ inflight' = [inflight EXCEPT ![w] =
          IF ~data.json \/ email = <<>> \/ password = <<>>
          THEN [r EXCEPT !.pc = "respond", !.status = 400]
          ELSE [r EXCEPT !.pc = "execute"]]
    /\ UNCHANGED <<db_users, seq_users, db_transactions, seq_transactions,
                   session, last, nreq, now>>

\* register: db.execute('INSERT INTO users ...'); an IntegrityError leaves
\* the connection's transaction open until the connection is closed.
register_execute(w) ==
    LET r == inflight[w] IN
    /\ r.op = "register"
    /\ r.pc = "execute"
    /\ LockFree(w)
    /\ inflight' = [inflight EXCEPT ![w] =
          IF UserInsertFails(r.email)
          THEN [r EXCEPT !.pc = "respond", !.lock = TRUE, !.status = 409]
          ELSE [r EXCEPT !.pc = "commit", !.lock = TRUE]]
    /\ UNCHANGED <<db_users, seq_users, db_transactions, seq_transactions,
                   session, last, nreq, now>>

\* register: db.commit(), then the session is written
register_commit(w) ==
    LET r == inflight[w] IN
    /\ r.op = "register"
    /\ r.pc = "commit"
    /\ db_users' = UsersAfterInsert(r.email,
                      generate_password_hash(r.password, r.salt))
    /\ seq_users' = seq_users + 1
    /\ inflight' = [inflight EXCEPT ![w] =
          [r EXCEPT !.pc = "respond", !.lock = FALSE, !.status = 201,
                    !.cookie = bind_session(r.cookie, r.email),
                    !.modified = TRUE]]
    /\ UNCHANGED <<db_transactions, seq_transactions,
                   session, last, nreq, now>>

\* setup_demo: the demo password is hashed
setup_demo_begin(w, sid, salt) ==
    /\ inflight[w].pc = "idle"
    /\ inflight' = [inflight EXCEPT ![w] =
          [Idle EXCEPT !.op = "setup_demo", !.pc = "execute", !.sid = sid,
                       !.cookie = open_session(sid), !.email = DemoEmail,
                       !.password = DemoPassword, !.salt = salt]]
    /\ UNCHANGED <<db_users, seq_users, db_transactions, seq_transactions,
                   session, last, nreq, now>>

\* setup_demo: db.execute('INSERT INTO users ...'); the IntegrityError is
\* passed over and leaves the connection's transaction open.
setup_demo_execute(w) ==
    LET r == inflight[w] IN
    /\ r.op = "setup_demo"
    /\ r.pc = "execute"
    /\ LockFree(w)
    /\ inflight' = [inflight EXCEPT ![w] =
          IF UserInsertFails(r.email)
          THEN [r EXCEPT !.pc = "count", !.lock = TRUE]
          ELSE [r EXCEPT !.pc = "commit", !.lock = TRUE]]
    /\ UNCHANGED <<db_users, seq_users, db_transactions, seq_transactions,
                   session, last, nreq, now>>

\* setup_demo: db.commit() of the user
setup_demo_commit(w) ==
    LET r == inflight[w] IN
    /\ r.op = "setup_demo"
    /\ r.pc = "commit"
    /\ db_users' = UsersAfterInsert(r.email,
                      generate_password_hash(r.password, r.salt))
    /\ seq_users' = seq_users + 1
    /\ inflight' = [inflight EXCEPT ![w] =
          [r EXCEPT !.pc = "count", !.lock = FALSE]]
    /\ UNCHANGED <<db_transactions, seq_transactions,
                   session, last, nreq, now>>

\* setup_demo: SELECT COUNT(*) of the demo user's transactions
setup_demo_count(w) ==
    LET r == inflight[w]
        c == CountOf(db_transactions, DemoEmail)
    IN
    /\ r.op = "setup_demo"
    /\ r.pc = "count"
    /\ inflight' = [inflight EXCEPT ![w] =
          [r EXCEPT !.c = c, !.status = IF c = 0 THEN 0 ELSE 200,
                    !.pc = IF c = 0 THEN "insert" ELSE "respond"]]
    /\ UNCHANGED <<db_users, seq_users, db_transactions, seq_transactions,
                   session, last, nreq, now>>

\* setup_demo: the INSERTs of the demo transactions
setup_demo_insert(w) ==
    LET r == inflight[w] IN
    /\ r.op = "setup_demo"
    /\ r.pc = "insert"
    /\ LockFree(w)
    /\ inflight' = [inflight EXCEPT ![w] =
          [r EXCEPT !.pc = "commit_rows", !.lock = TRUE]]
    /\ UNCHANGED <<db_users, seq_users, db_transactions, seq_transactions,
                   session, last, nreq, now>>

\* setup_demo: db.commit() of the demo transactions
setup_demo_commit_rows(w) ==
    LET r == inflight[w]
        first_id == NextRowId(seq_transactions, db_transactions)
    IN
    /\ r.op = "setup_demo"
    /\ r.pc = "commit_rows"
    /\ db_transactions' = db_transactions \o
          [i \in 1..Len(demo_transactions) |-> DemoRow(i, first_id - 1)]
    /\ seq_transactions' = first_id - 1 + Len(demo_transactions)
    /\ inflight' = [inflight EXCEPT ![w] =
          [r EXCEPT !.pc = "respond", !.lock = FALSE, !.status = 200]]
    /\ UNCHANGED <<db_users, seq_users, session, last, nreq, now>>

\* The bodies of the registrations that are served at the same time.
SignupInputs ==
    {AuthBody(JStr(<<"a", " ">>), JStr(<<"p">>)),
     AuthBody(JStr(DemoEmail), JStr(<<"p">>))}

NextSignups ==
    \/ \E w \in Workers, sid \in Sessions, data \in SignupInputs,
          salt \in Salts : register_begin(w, sid, data, salt)
    \/ \E w \in Workers : register_execute(w)
    \/ \E w \in Workers : register_commit(w)
    \/ \E w \in Workers, sid \in Sessions, salt \in Salts :
          setup_demo_begin(w, sid, salt)
    \/ \E w \in Workers : setup_demo_execute(w)
    \/ \E w \in Workers : setup_demo_commit(w)
    \/ \E w \in Workers : setup_demo_count(w)
    \/ \E w \in Workers : setup_demo_insert(w)
    \/ \E w \in Workers : setup_demo_commit_rows(w)
    \/ \E w \in Workers : respond(w)

SpecSignups == InitWorkers /\ [][NextSignups]_vars

\* --------------------------------------------------- deletes at a time
\* The state after one user registered in the first browser and created
\* two transactions: the state the deletes start from.
OwnerEmail == <<"a">>
OwnerPassword == <<"p">>
OwnedRow(i) ==
    [id |-> i, user_email |-> OwnerEmail,
     type |-> BaseTxData.type.s, date |-> BaseTxData.date.s,
     amount |-> float(BaseTxData.amount).v,
     category |-> BaseTxData.category.s,
     categoryName |-> BaseTxData.categoryName]
OwnedRows == <<OwnedRow(1), OwnedRow(2)>>
OwnedState ==
    /\ db_users = {[id |-> 1, email |-> OwnerEmail,
                    password |-> generate_password_hash(OwnerPassword, 1)]}
    /\ seq_users = 1
    /\ db_transactions = OwnedRows
    /\ seq_transactions = Len(OwnedRows)
    /\ session = [s \in Sessions |->
                     IF s = 1 THEN bind_session(EmptySession, OwnerEmail)
                     ELSE EmptySession]
    /\ last = [NoResponse EXCEPT !.op = "create", !.sid = 1,
                  !.data = BaseTxData, !.status = 201, !.ok = TRUE,
                  !.email = OwnerEmail, !.id = Len(OwnedRows)]
    /\ nreq = 1 + Len(OwnedRows)
    /\ now = 0

InitDeletes == OwnedState /\ inflight = [w \in Workers |-> Idle]

NextDeletes ==
    \/ \E w \in Workers, sid \in Sessions, tx_id \in DeleteIds :
          delete_begin(w, sid, tx_id)
    \/ \E w \in Workers : delete_execute(w)
    \/ \E w \in Workers : delete_commit(w)
    \/ \E w \in Workers : delete_rowcount(w)
    \/ \E w \in Workers : respond(w)

SpecDeletes == InitDeletes /\ [][NextDeletes]_vars

\* ------------------------------------------------------------------- C11
\* The workers that serve a delete of transaction t for its owner.
OwnerDeletes(t) ==
    {w \in Workers : /\ inflight[w].op = "delete"
                     /\ inflight[w].tx_id = t
                     /\ inflight[w].user_email = OwnerEmail}

\* C11: of the deletes of one transaction that are served at the same time
\* for its owner, at most one is answered 200 at any moment; once all of
\* them are answered, exactly one was answered 200 and the others 404 when
\* the transaction existed (all 404 when it did not), and the transaction
\* is not in the table; and a transaction that is no longer in the table
\* is one that a delete of its owner for its id has committed.
C11_ConcurrentDeletes ==
    /\ \A t \in DeleteIds :
          LET D == OwnerDeletes(t)
              ok == {w \in D : inflight[w].status = 200}
              existed == \E i \in DOMAIN OwnedRows : OwnedRows[i].id = t
          IN  /\ Cardinality(ok) <= 1
              /\ (D # {} /\ \A w \in D : inflight[w].pc = "done")
                 => /\ Cardinality(ok) = (IF existed THEN 1 ELSE 0)
                    /\ \A w \in D \ ok : inflight[w].status = 404
                    /\ \A i \in DOMAIN db_transactions :
                          db_transactions[i].id # t
    /\ \A i \in DOMAIN OwnedRows :
          \/ \E j \in DOMAIN db_transactions :
                db_transactions[j] = OwnedRows[i]
          \/ \E w \in OwnerDeletes(OwnedRows[i].id) :
                inflight[w].pc \in {"rowcount", "respond", "done"}

\* C11 witness: of two deletes of the same transaction for its owner, one
\* has been answered 404 while the response 200 of the other, which removed
\* the row, is not yet sent.
C11_Witness ==
    \E v, w \in Workers :
       /\ v # w
       /\ v \in OwnerDeletes(inflight[w].tx_id)
       /\ w \in OwnerDeletes(inflight[v].tx_id)
       /\ inflight[v].pc = "respond"
       /\ inflight[v].status = 200
       /\ inflight[w].pc = "done"
       /\ inflight[w].status = 404

\* ------------------------------------------------------------------- C12
\* The workers of fl that serve a registration of e-mail e with a body
\* that has an e-mail and a password.
Registrations(fl, e) ==
    {w \in Workers : /\ fl[w].op = "register"
                     /\ fl[w].email = e
                     /\ fl[w].status # 400}

\* C12: in every state no two rows of the users table have the same e-mail,
\* and every step keeps every row of the table as it is; of the
\* registrations of one e-mail that are served at the same time at most
\* one is answered 201, and once all of them are answered the others were
\* answered 409, the table has a row with that e-mail, and its hash
\* verifies the password of the registration answered 201, or the demo
\* password of setup_demo when none was.
C12_OneUserPerEmail ==
    [][ /\ \A u, v \in db_users' : u.email = v.email => u = v
        /\ db_users \subseteq db_users'
        /\ \A x \in Workers :
              LET R == Registrations(inflight', inflight'[x].email)
                  ok == {w \in R : inflight'[w].status = 201}
              IN  /\ Cardinality(ok) <= 1
                  /\ (R # {} /\ \A w \in R : inflight'[w].pc = "done")
                     => /\ \A w \in R \ ok : inflight'[w].status = 409
                        /\ \E u \in db_users' :
                              /\ u.email = inflight'[x].email
                              /\ \A w \in ok : check_password_hash(
                                    u.password, inflight'[w].password)
                              /\ ok = {} => check_password_hash(
                                    u.password, DemoPassword)
      ]_vars

\* C12 witness: of two registrations of the same e-mail, one has been
\* answered 409 while the response 201 of the other is not yet sent.
C12_Witness ==
    \E v, w \in Workers :
       /\ v # w
       /\ inflight[v].op = "register" /\ inflight[w].op = "register"
       /\ inflight[v].email = inflight[w].email
       /\ inflight[v].pc = "respond"
       /\ inflight[v].status = 201
       /\ inflight[w].pc = "done"
       /\ inflight[w].status = 409
       /\ Cardinality(UsersByEmail(inflight[v].email)) = 1

====
